---------------------------- MODULE Spec2Model ----------------------------
(***************************************************************************)
(* Zenith Projects: the synchronisation between the Implementation Plan    *)
(* text and the task list (services/projectService.ts, App.tsx).           *)
(*                                                                         *)
(* A JavaScript string is a sequence of one-character strings, so that     *)
(* split, trim, startsWith and substring are computed as the code computes *)
(* them.  A value that is not a string (a member inherited from            *)
(* Object.prototype, undefined) is a sequence whose first element is a     *)
(* longer tag, which no string can equal.                                  *)
(***************************************************************************)
EXTENDS Integers, Sequences, FiniteSets, TLC

VARIABLES
    \* --- the application (App.tsx) ---
    plan,            \* project.implementationPlan
    tasks,           \* project.tasks
    phaseColors,     \* project.phaseColors   (label -> hue)
    subPhaseColors,  \* project.subPhaseColors
    projects,        \* ids of the projects that exist besides the open one
    effect,          \* TRUE while the ProjectView sync effect is still to run
    clock,           \* how many project ids `proj-${Date.now()}` has issued
    events,          \* how many user events have been handled
    last,            \* what the last handler or effect did (a record, for the properties)
    \* --- the pure functions applied to a drawn input ---
    input,           \* the task list or text the functions are applied to
    step,            \* how far the pipeline has run on it
    out              \* what it has produced so far

appVars == <<plan, tasks, phaseColors, subPhaseColors, projects, effect, clock,
             events, last>>
fnVars  == <<input, step, out>>
vars    == <<plan, tasks, phaseColors, subPhaseColors, projects, effect, clock,
             events, last, input, step, out>>

-----------------------------------------------------------------------------
(* String primitives                                                       *)

\* The characters String.prototype.trim removes (those the model's texts use).
WhiteSpace == {" ", "\n"}

\* s.trim(): from the first to the last character that is not white space.
Trim(s) ==
    LET kept == {i \in 1..Len(s) : s[i] \notin WhiteSpace}
    IN  IF kept = {} THEN <<>>
        ELSE SubSeq(s, CHOOSE i \in kept : \A j \in kept : i <= j,
                       CHOOSE i \in kept : \A j \in kept : i >= j)

StartsWith(s, p) == Len(s) >= Len(p) /\ SubSeq(s, 1, Len(p)) = p

\* s.substring(n): the characters from zero-based index n on.
Substring(s, n) == SubSeq(s, n + 1, Len(s))

\* s.split(c) for a one-character separator: the stretches between the
\* occurrences of c, so always at least one part.
Split(s, c) ==
    LET at == SelectSeq([i \in 1..Len(s) |-> i], LAMBDA i : s[i] = c)
        n  == Len(at)
        cut(k) == IF k = 0 THEN 0 ELSE IF k = n + 1 THEN Len(s) + 1 ELSE at[k]
    IN  [k \in 1..(n + 1) |-> SubSeq(s, cut(k - 1) + 1, cut(k) - 1)]

\* s.replace(c, ''): the first occurrence of c only.
ReplaceFirst(s, c) ==
    LET at == {i \in 1..Len(s) : s[i] = c}
    IN  IF at = {} THEN s
        ELSE LET first == CHOOSE i \in at : \A j \in at : i <= j
             IN  SubSeq(s, 1, first - 1) \o SubSeq(s, first + 1, Len(s))

DigitChar == <<"0", "1", "2", "3", "4", "5", "6", "7", "8", "9">>

\* String(n) for a natural number n.
RECURSIVE NumberToString(_)
NumberToString(n) ==
    IF n < 10 THEN <<DigitChar[n + 1]>>
    ELSE NumberToString(n \div 10) \o <<DigitChar[(n % 10) + 1]>>

DigitValue(c) == CHOOSE d \in 0..9 : DigitChar[d + 1] = c

IsDigit(c) == \E d \in 1..10 : DigitChar[d] = c

RECURSIVE StringToNumber(_)
StringToNumber(s) ==
    IF s = <<>> THEN 0
    ELSE 10 * StringToNumber(SubSeq(s, 1, Len(s) - 1)) + DigitValue(s[Len(s)])

Map(f(_), s) == [i \in 1..Len(s) |-> f(s[i])]

RECURSIVE Concat(_)
Concat(ss) == IF ss = <<>> THEN <<>> ELSE Head(ss) \o Concat(Tail(ss))

-----------------------------------------------------------------------------
(* types.ts                                                                *)

Backlog    == <<"B", "a", "c", "k", "l", "o", "g">>
ToDo       == <<"T", "o", "-", "D", "o">>
InProgress == <<"I", "n", " ", "P", "r", "o", "g", "r", "e", "s", "s">>
Review     == <<"R", "e", "v", "i", "e", "w">>
Done       == <<"D", "o", "n", "e">>
Future     == <<"F", "u", "t", "u", "r", "e">>

\* enum TaskStatus: member name -> value.
TaskStatus ==
    ( <<"B", "a", "c", "k", "l", "o", "g">> :> Backlog ) @@
    ( <<"T", "o", "D", "o">> :> ToDo ) @@
    ( <<"I", "n", "P", "r", "o", "g", "r", "e", "s", "s">> :> InProgress ) @@
    ( <<"R", "e", "v", "i", "e", "w">> :> Review ) @@
    ( <<"D", "o", "n", "e">> :> Done ) @@
    ( <<"F", "u", "t", "u", "r", "e">> :> Future )

High   == <<"H", "i", "g", "h">>
Medium == <<"M", "e", "d", "i", "u", "m">>
Low    == <<"L", "o", "w">>
None   == <<"N", "o", "n", "e">>

\* enum Priority: every member is named by its value.
Priority == [k \in {High, Medium, Low, None} |-> k]

\* A task's optional subProjectId when the property is absent or undefined
\* (the code reads it only through property access and JSON.stringify,
\* which do not tell the two apart).
Undefined == <<"undefined">>

\* constants.ts
\* Mutant of KANBAN_COLUMNS: To-Do before Backlog.
KANBAN_COLUMNS_Swapped == <<ToDo, Backlog, InProgress, Review, Done, Future>>

KANBAN_COLUMNS == <<Backlog, ToDo, InProgress, Review, Done, Future>>

-----------------------------------------------------------------------------
(* Plain objects used as maps                                              *)

\* Names every plain object ({} or a compiled enum) inherits from
\* Object.prototype: obj[name] is then a function, which is truthy.
ObjectPrototypeKeys ==
    { <<"v", "a", "l", "u", "e", "O", "f">>,
      <<"t", "o", "S", "t", "r", "i", "n", "g">>,
      <<"c", "o", "n", "s", "t", "r", "u", "c", "t", "o", "r">> }

\* The inherited member itself: a function value, not a string.
InheritedMember(key) == <<"function">> \o key

IsFunctionValue(v) == v # <<>> /\ Head(v) = "function"

\* String(v), as a template literal renders v.
StringOf(v) ==
    IF IsFunctionValue(v)
    THEN <<"f", "u", "n", "c", "t", "i", "o", "n", " ">> \o Tail(v) \o
         <<"(", ")", " ", "{", " ", "[", "n", "a", "t", "i", "v", "e", " ",
           "c", "o", "d", "e", "]", " ", "}">>
    ELSE v

\* A canonical array index ("0", "7", "12"): Object.keys lists these keys
\* first, in ascending numeric order, whatever the insertion order.
IsArrayIndex(k) ==
    /\ k # <<>>
    /\ \A i \in 1..Len(k) : IsDigit(k[i])
    /\ (Len(k) > 1 => k[1] # "0")
    /\ Len(k) <= 9

-----------------------------------------------------------------------------
(* projectService.ts: the parser                                           *)

General       == <<"G", "e", "n", "e", "r", "a", "l">>
PartialPrefix == <<"p", "a", "r", "t", "i", "a", "l", "-">>
Ellipsis      == <<".", ".", ".">>

\* obj[key] of a compiled enum object: an own member, an inherited member,
\* or undefined.
EnumLookup(enum, key) ==
    IF key \in DOMAIN enum THEN enum[key]
    ELSE IF key \in ObjectPrototypeKeys THEN InheritedMember(key)
    ELSE Undefined

\* v || d for a string, undefined or function value v.
OrElse(v, d) == IF v = Undefined \/ v = <<>> THEN d ELSE v

Capitals ==
    <<"A", "B", "C", "D", "E", "F", "G", "H", "I", "J", "K", "L", "M",
      "N", "O", "P", "Q", "R", "S", "T", "U", "V", "W", "X", "Y", "Z">>

Smalls ==
    <<"a", "b", "c", "d", "e", "f", "g", "h", "i", "j", "k", "l", "m",
      "n", "o", "p", "q", "r", "s", "t", "u", "v", "w", "x", "y", "z">>

\* A text without its hyphens and spaces, in small letters.
Folded(s) ==
    LET kept == SelectSeq(s, LAMBDA c : c \notin {"-", " "})
    IN  [i \in 1..Len(kept) |->
            IF \E k \in 1..26 : Capitals[k] = kept[i]
            THEN Smalls[CHOOSE k \in 1..26 : Capitals[k] = kept[i]]
            ELSE kept[i]]

\* Mutant of getStatusFromString: the member is looked up without regard
\* to letter case, hyphens and spaces.
getStatusFromString_IgnoresCase(s) ==
    LET hits == {k \in DOMAIN TaskStatus : Folded(k) = Folded(s)}
    IN  IF hits # {} THEN TaskStatus[CHOOSE k \in hits : TRUE]
        ELSE OrElse(EnumLookup(TaskStatus, ReplaceFirst(ReplaceFirst(s, "-"), " ")),
                    Backlog)

getStatusFromString(s) ==
    LET key == ReplaceFirst(ReplaceFirst(s, "-"), " ")
    IN  OrElse(EnumLookup(TaskStatus, key), Backlog)

getPriorityFromString(p) == OrElse(EnumLookup(Priority, p), None)

\* Mutant of Destructure: the priority is the last field of the line.
Destructure_PriorityLast(parts, i) ==
    IF i > Len(parts) THEN Undefined
    ELSE IF i = 4 THEN parts[Len(parts)] ELSE parts[i]

\* const [subPhase, id, description, priority] = parts
Destructure(parts, i) == IF i <= Len(parts) THEN parts[i] ELSE Undefined

\* Mutant of StatusHeading: a status heading that keeps the current phase.
StatusHeading_KeepsPhase(st, trimmedLine) ==
    [st EXCEPT !.currentStatus = getStatusFromString(Trim(Substring(trimmedLine, 2)))]

\* The '# ' branch: the status named by the heading, and the phase reset.
StatusHeading(st, trimmedLine) ==
    [st EXCEPT !.currentStatus = getStatusFromString(Trim(Substring(trimmedLine, 2))),
               !.currentPhase = General]

\* The '## ' branch.
PhaseHeading(st, trimmedLine) ==
    [st EXCEPT !.currentPhase = Trim(Substring(trimmedLine, 3))]

\* Mutant of SplitFields: the fields are not trimmed.
SplitFields_Untrimmed(trimmedLine) == Split(Substring(trimmedLine, 2), ",")

\* trimmedLine.substring(2).split(',').map(p => p.trim())
SplitFields(trimmedLine) == Map(Trim, Split(Substring(trimmedLine, 2), ","))

\* Mutant of PlaceholderId: the line number counted from one.
PlaceholderId_OneBased(lineIndex) == PartialPrefix \o NumberToString(lineIndex + 1)

\* `partial-${lineIndex}`
PlaceholderId(lineIndex) == PartialPrefix \o NumberToString(lineIndex)

\* The '- ' branch: the task pushed for the line.
ParsedTask(st, trimmedLine, lineIndex) ==
    LET parts == SplitFields(trimmedLine)
        subPhase    == Destructure(parts, 1)
        id          == Destructure(parts, 2)
        description == Destructure(parts, 3)
        priority    == Destructure(parts, 4)
    IN  [ subPhase     |-> OrElse(subPhase, <<>>),
          id           |-> OrElse(id, PlaceholderId(lineIndex)),
          description  |-> OrElse(description, Ellipsis),
          priority     |-> getPriorityFromString(OrElse(priority, None)),
          status       |-> st.currentStatus,
          phase        |-> st.currentPhase,
          subProjectId |-> Undefined ]

\* Mutant of ParseLine: a line that is neither heading nor list item ends
\* the current phase.
ParseLine_PlainResets(st, line, lineIndex) ==
    LET trimmedLine == Trim(line) IN
    IF StartsWith(trimmedLine, <<"#", " ">>) THEN StatusHeading(st, trimmedLine)
    ELSE IF StartsWith(trimmedLine, <<"#", "#", " ">>) THEN PhaseHeading(st, trimmedLine)
    ELSE IF StartsWith(trimmedLine, <<"-", " ">>) THEN
        [st EXCEPT !.tasks = Append(@, ParsedTask(st, trimmedLine, lineIndex))]
    ELSE IF trimmedLine = <<>> THEN st
    ELSE [st EXCEPT !.currentPhase = General]

\* The body of the forEach callback: one line, at zero-based lineIndex.
ParseLine(st, line, lineIndex) ==
    LET trimmedLine == Trim(line) IN
    IF StartsWith(trimmedLine, <<"#", " ">>) THEN StatusHeading(st, trimmedLine)
    ELSE IF StartsWith(trimmedLine, <<"#", "#", " ">>) THEN PhaseHeading(st, trimmedLine)
    ELSE IF StartsWith(trimmedLine, <<"-", " ">>) THEN
        [st EXCEPT !.tasks = Append(@, ParsedTask(st, trimmedLine, lineIndex))]
    ELSE st

RECURSIVE ParseLines(_, _, _)
ParseLines(lines, i, st) ==
    IF i > Len(lines) THEN st.tasks
    ELSE ParseLines(lines, i + 1, ParseLine(st, lines[i], i - 1))

parseImplementationPlan(text) ==
    ParseLines(Split(text, "\n"), 1,
               [currentStatus |-> Backlog, currentPhase |-> General, tasks |-> <<>>])

-----------------------------------------------------------------------------
(* projectService.ts: the generator                                        *)

\* The distinct elements of s in the order of their first occurrence: the
\* insertion order of the keys of an object filled by a reduce over s.
RECURSIVE InsertionOrder(_)
InsertionOrder(s) ==
    IF s = <<>> THEN <<>>
    ELSE LET r == InsertionOrder(SubSeq(s, 1, Len(s) - 1))
         IN  IF \E i \in 1..Len(r) : r[i] = s[Len(s)] THEN r
             ELSE Append(r, s[Len(s)])

\* The array-index keys among ks, in ascending numeric order.
RECURSIVE Ascending(_)
Ascending(ks) ==
    IF ks = <<>> THEN <<>>
    ELSE LET m == CHOOSE i \in 1..Len(ks) :
                    \A j \in 1..Len(ks) : StringToNumber(ks[i]) <= StringToNumber(ks[j])
         IN  <<ks[m]>> \o Ascending(SelectSeq(ks, LAMBDA k : k # ks[m]))

\* Object.keys(obj) for an object whose string keys were inserted in the
\* order `inserted`: array indices first, ascending, then the other keys
\* in insertion order.
ObjectKeys(inserted) ==
    Ascending(SelectSeq(inserted, IsArrayIndex)) \o
    SelectSeq(inserted, LAMBDA k : ~IsArrayIndex(k))

\* `acc[key].push(task)` on an accumulator that starts as {}: for a key
\* that names an inherited member, acc[key] is truthy, no array is stored,
\* and the push raises a TypeError.
GroupingThrows(keys) == \E i \in 1..Len(keys) : keys[i] \in ObjectPrototypeKeys

IsPartial(task) == StartsWith(task.id, PartialPrefix)

\* Mutant of TaskLine: the id is written before the sub-phase.
TaskLine_IdFirst(task) ==
    <<"-", " ">> \o task.id \o <<",", " ">> \o task.subPhase \o <<",", " ">> \o
    task.description \o <<",", " ">> \o StringOf(task.priority) \o <<"\n">>

TaskLine(task) ==
    <<"-", " ">> \o task.subPhase \o <<",", " ">> \o task.id \o <<",", " ">> \o
    task.description \o <<",", " ">> \o StringOf(task.priority) \o <<"\n">>

\* Mutant of PhaseBlock: the tasks of a phase are written last to first.
PhaseBlock_Reversed(phase, completeTasks) ==
    LET own == SelectSeq(completeTasks, LAMBDA t : t.phase = phase)
    IN  <<"#", "#", " ">> \o phase \o <<"\n">> \o
        Concat(Map(TaskLine, [i \in 1..Len(own) |-> own[Len(own) + 1 - i]])) \o
        <<"\n">>

PhaseBlock(phase, completeTasks) ==
    <<"#", "#", " ">> \o phase \o <<"\n">> \o
    Concat(Map(TaskLine, SelectSeq(completeTasks, LAMBDA t : t.phase = phase))) \o
    <<"\n">>

\* One iteration of `for (const status of KANBAN_COLUMNS)`: the text it adds.
StatusBlock(status, groupedTasks) ==
    LET statusTasks   == SelectSeq(groupedTasks, LAMBDA t : StringOf(t.status) = status)
        completeTasks == SelectSeq(statusTasks, LAMBDA t : ~IsPartial(t))
        phases == ObjectKeys(InsertionOrder(Map(LAMBDA t : t.phase, completeTasks)))
    IN  IF completeTasks = <<>> THEN <<>>
        ELSE <<"#", " ">> \o status \o <<"\n">> \o
             Concat(Map(LAMBDA ph : PhaseBlock(ph, completeTasks), phases))

\* Whether the call raises instead of returning.
GenerateThrows(groupedTasks) ==
    \/ GroupingThrows(Map(LAMBDA t : StringOf(t.status), groupedTasks))
    \/ \E c \in 1..Len(KANBAN_COLUMNS) :
          GroupingThrows(Map(LAMBDA t : t.phase,
              SelectSeq(groupedTasks, LAMBDA t : StringOf(t.status) = KANBAN_COLUMNS[c]
                                                 /\ ~IsPartial(t))))

\* The result: threw, or the text returned.
generateImplementationPlanText(groupedTasks) ==
    IF GenerateThrows(groupedTasks) THEN [threw |-> TRUE, text |-> <<>>]
    ELSE [threw |-> FALSE,
          text  |-> Trim(Concat(Map(LAMBDA s : StatusBlock(s, groupedTasks),
                                    KANBAN_COLUMNS))) \o <<"\n">>]

-----------------------------------------------------------------------------
(* App.tsx: the reconciliation merge of the ProjectView sync effect        *)

\* Mutant of FindSubProjectId: the previous list is not consulted.
FindSubProjectId_Never(previous, id) == <<"undefined">>

\* project.tasks.find(t => t.id === id)?.subProjectId
FindSubProjectId(previous, id) ==
    IF \E i \in 1..Len(previous) : previous[i].id = id
    THEN previous[CHOOSE i \in 1..Len(previous) :
                    /\ previous[i].id = id
                    /\ \A j \in 1..(i - 1) : previous[j].id # id].subProjectId
    ELSE Undefined

\* Mutant of MergeTasks: the previous tasks whose id the parse lacks are
\* kept, after the parsed ones.
MergeTasks_KeepsUnmatched(newTasksFromPlan, previous) ==
    Map(LAMBDA newTask :
            [newTask EXCEPT !.subProjectId = FindSubProjectId(previous, newTask.id)],
        newTasksFromPlan)
    \o SelectSeq(previous,
                 LAMBDA t : ~\E i \in 1..Len(newTasksFromPlan) : newTasksFromPlan[i].id = t.id)

\* newTasksFromPlan.map(newTask => ({ ...newTask, subProjectId: ... }))
MergeTasks(newTasksFromPlan, previous) ==
    Map(LAMBDA newTask :
            [newTask EXCEPT !.subProjectId = FindSubProjectId(previous, newTask.id)],
        newTasksFromPlan)

-----------------------------------------------------------------------------
(* Inputs of the pure functions                                            *)

\* Longest task list drawn as the generator's input.
MaxTasks == 3

Task(subPhase, id, description, priority, status, phase, subProjectId) ==
    [ subPhase |-> subPhase, id |-> id, description |-> description,
      priority |-> priority, status |-> status, phase |-> phase,
      subProjectId |-> subProjectId ]

\* Task records of the Task type: any strings for the four text fields (a
\* comma, surrounding blanks, the empty string, a placeholder id, a phase
\* that is an array index or names an inherited member), the six statuses
\* and the status the parser gives a task below the heading '# valueOf',
\* the four priorities, with and without a sub-project link.
TaskPool ==
    { Task(<<"S">>, <<"X", "-", "1">>, <<"d">>, High, ToDo, <<"B">>, Undefined),
      Task(<<"S">>, <<"Y">>, <<"e">>, Low, ToDo, <<"A">>, <<"proj-1">>),
      Task(<<>>, <<"Z">>, <<"d">>, None, Backlog, <<"B">>, Undefined),
      Task(<<"R">>, <<"p", "a", "r", "t", "i", "a", "l", "-", "1">>, Ellipsis,
           None, ToDo, <<"A">>, Undefined),
      Task(<<"S">>, <<"V">>, <<"d">>, Medium, Done, <<"2">>, Undefined),
      Task(<<"S">>, <<"W">>, <<"d">>, Medium, Done, <<"1">>, <<"proj-2">>),
      Task(<<"S">>, <<"U">>, <<"a", ",", "b">>, High, InProgress, <<"B">>, Undefined),
      Task(<<"S">>, <<>>, <<"d">>, High, Backlog, <<"B">>, Undefined),
      Task(<<"S">>, <<"T">>, <<"d">>, High, Review,
           <<"v", "a", "l", "u", "e", "O", "f">>, Undefined),
      Task(<<"S">>, <<"Q">>, <<>>, Low, Future, <<" ", "A">>, Undefined),
      Task(<<" ", "S">>, <<"P">>, <<"d">>, Low, Future, <<>>, Undefined),
      Task(<<"S">>, <<"F">>, <<"d">>, Low,
           InheritedMember(<<"v", "a", "l", "u", "e", "O", "f">>), General, Undefined) }

RECURSIVE SeqsUpTo(_, _)
SeqsUpTo(S, n) ==
    IF n = 0 THEN {<<>>}
    ELSE LET shorter == SeqsUpTo(S, n - 1)
         IN  shorter \cup {Append(q, x) : q \in shorter, x \in S}

TaskLists == SeqsUpTo(TaskPool, MaxTasks)

Idle == <<"idle">>

AppIdle ==
    /\ plan = Idle /\ tasks = Idle /\ phaseColors = Idle /\ subPhaseColors = Idle
    /\ projects = Idle /\ effect = Idle /\ clock = Idle /\ events = Idle
    /\ last = Idle

-----------------------------------------------------------------------------
(* The generator applied to a drawn task list: generate, parse the text,   *)
(* merge against the list, generate again.                                 *)

NoOutput == [gen |-> Idle, parsed |-> Idle, regen |-> Idle, regenMerged |-> Idle]

InitGenerate ==
    /\ AppIdle
    /\ input \in TaskLists
    /\ step = "input"
    /\ out = NoOutput

Generate ==
    /\ step = "input"
    /\ LET r == generateImplementationPlanText(input)
       IN  /\ out' = [out EXCEPT !.gen = r]
           /\ step' = IF r.threw THEN "threw" ELSE "generated"
    /\ UNCHANGED <<input, appVars>>

Parse ==
    /\ step = "generated"
    /\ out' = [out EXCEPT !.parsed = parseImplementationPlan(out.gen.text)]
    /\ step' = "parsed"
    /\ UNCHANGED <<input, appVars>>

Regenerate ==
    /\ step = "parsed"
    /\ out' = [out EXCEPT
                 !.regen = generateImplementationPlanText(out.parsed),
                 !.regenMerged =
                     generateImplementationPlanText(MergeTasks(out.parsed, input))]
    /\ step' = "regenerated"
    /\ UNCHANGED <<input, appVars>>

NextGenerate == Generate \/ Parse \/ Regenerate

SpecGenerate == InitGenerate /\ [][NextGenerate]_vars

-----------------------------------------------------------------------------
(* Properties of the generator and of the round trip (SpecGenerate)        *)

HasPlaceholderId(t) == StartsWith(t.id, <<"p", "a", "r", "t", "i", "a", "l", "-">>)

NoPlaceholderIds(T) == \A i \in 1..Len(T) : ~HasPlaceholderId(T[i])

\* A task as the text can express it: without its sub-project link.
WithoutLink(t) == [t EXCEPT !.subProjectId = <<"undefined">>]

CanonicalStatusOrder ==
    << <<"B", "a", "c", "k", "l", "o", "g">>,
       <<"T", "o", "-", "D", "o">>,
       <<"I", "n", " ", "P", "r", "o", "g", "r", "e", "s", "s">>,
       <<"R", "e", "v", "i", "e", "w">>,
       <<"D", "o", "n", "e">>,
       <<"F", "u", "t", "u", "r", "e">> >>

IsStatus(s) == \E k \in 1..6 : CanonicalStatusOrder[k] = s

\* The place of a status in that order; 7 for a value that is none of them.
StatusRank(s) ==
    IF IsStatus(s) THEN CHOOSE k \in 1..6 : CanonicalStatusOrder[k] = s ELSE 7

\* A text field the line format carries unchanged.
PlainText(s) ==
    /\ \A i \in 1..Len(s) : s[i] \notin {",", "\n"}
    /\ (s # <<>> => s[1] # " " /\ s[Len(s)] # " ")

\* A task every field of which the text format can express.
Expressible(t) ==
    /\ PlainText(t.subPhase) /\ PlainText(t.id)
    /\ PlainText(t.description) /\ PlainText(t.phase)
    /\ t.id # <<>> /\ t.description # <<>> /\ t.phase # <<>>
    /\ ~HasPlaceholderId(t)
    /\ t.phase \notin ObjectPrototypeKeys
    /\ IsStatus(t.status)

AllExpressible(T) == \A i \in 1..Len(T) : Expressible(T[i])

SameGroup(t, u) == t.status = u.status /\ t.phase = u.phase

TextLines(text) == Split(text, "\n")

ExpectedTaskLine(t) ==
    <<"-", " ">> \o t.subPhase \o <<",", " ">> \o t.id \o <<",", " ">> \o
    t.description \o <<",", " ">> \o t.priority

Count(s, Test(_)) == Len(SelectSeq(s, Test))

\* C6: the generated text has no task line for a task whose id starts
\* with 'partial-' and exactly one task line for every other task.
C6_PlaceholderExclusion ==
    (step # "input" /\ ~out.gen.threw) =>
        LET lines == TextLines(out.gen.text) IN
        /\ Count(lines, LAMBDA l : StartsWith(l, <<"-", " ">>)) =
           Count(input, LAMBDA t : ~HasPlaceholderId(t))
        /\ \A i \in 1..Len(input) :
             Count(lines, LAMBDA l : l = ExpectedTaskLine(input[i])) =
             IF HasPlaceholderId(input[i]) THEN 0
             ELSE Count(input, LAMBDA t : /\ ~HasPlaceholderId(t)
                                          /\ ExpectedTaskLine(t) = ExpectedTaskLine(input[i]))

HeadingLine(s) == <<"#", " ">> \o s

\* C7: the status headings of the generated text are those of the statuses
\* that have a task without placeholder id, once each, in the order
\* Backlog, To-Do, In Progress, Review, Done, Future.
C7_CanonicalStatusOrder ==
    (step # "input" /\ ~out.gen.threw) =>
        SelectSeq(TextLines(out.gen.text), LAMBDA l : StartsWith(l, <<"#", " ">>)) =
        Map(HeadingLine,
            SelectSeq(CanonicalStatusOrder,
                      LAMBDA s : \E i \in 1..Len(input) :
                                    input[i].status = s /\ ~HasPlaceholderId(input[i])))

\* C7 witness: two statuses given in reverse canonical order, and a third
\* status whose only task is a placeholder.
C7_Witness ==
    /\ step = "generated"
    /\ Len(input) = 3
    /\ ~HasPlaceholderId(input[1]) /\ ~HasPlaceholderId(input[2])
    /\ IsStatus(input[1].status)
    /\ StatusRank(input[1].status) > StatusRank(input[2].status)
    /\ HasPlaceholderId(input[3])
    /\ input[3].status \notin {input[1].status, input[2].status}

PhasesFirstSeen(T, s) ==
    InsertionOrder(Map(LAMBDA t : t.phase,
                       SelectSeq(T, LAMBDA t : t.status = s /\ ~HasPlaceholderId(t))))

PhaseLine(ph) == <<"#", "#", " ">> \o ph

\* C8: within each status the phase blocks come in the order in which the
\* phases are first encountered among that status's tasks, whatever the
\* phase labels are.
C8_PhaseFirstSeenOrder ==
    (step # "input" /\ ~out.gen.threw) =>
        SelectSeq(TextLines(out.gen.text), LAMBDA l : StartsWith(l, <<"#", "#", " ">>)) =
        Concat(Map(LAMBDA s : Map(PhaseLine, PhasesFirstSeen(input, s)),
                   CanonicalStatusOrder))

-----------------------------------------------------------------------------
(* The parser applied to a drawn text                                      *)

\* Most lines of a drawn text.
MaxLines == 3

\* Lines a plan can hold: status headings (known, unknown, naming a member
\* every object inherits, in another spelling), phase headings
\* (plain, indented with blanks, without a label), task lines (complete,
\* with empty fields, with fields missing, indented, with an id of the
\* placeholder form and an unknown priority, with five fields), a blank line and a line of
\* another kind.
LinePool ==
    { <<"#", " ", "T", "o", "-", "D", "o">>,
      <<"#", " ", "I", "n", " ", "P", "r", "o", "g", "r", "e", "s", "s">>,
      <<"#", " ", "n", "o", "p", "e">>,
      <<"#", " ", "v", "a", "l", "u", "e", "O", "f">>,
      <<"#", " ", "t", "o", "-", "d", "o">>,
      <<"#", " ", "I", "n", "-", "P", "r", "o", "g", "r", "e", "s", "s">>,
      <<"-", " ", "a", ",", " ", "p", "a", "r", "t", "i", "a", "l", "-", "0", ",", " ", "d", ",",
        " ", "t", "o", "S", "t", "r", "i", "n", "g">>,
      <<"#", "#", " ", "A", "l", "p", "h", "a">>,
      <<" ", "#", "#", " ", " ", "B", " ">>,
      <<"#", "#", " ">>,
      <<"-", " ", "X", ",", " ", "X", "-", "1", ",", " ", "d", ",", " ", "H", "i", "g", "h">>,
      <<"-", " ", ",", " ", ",", " ", ",">>,
      <<"-", " ", "a">>,
      <<"-", " ", "S", ",", " ", "Y", ",", " ", ",", " ", "L", "o", "w", " ">>,
      <<" ", " ", "-", " ", "T", ",", "Z">>,
      <<"-", " ", "S", ",", " ", "W", ",", " ", "a", " ", ",", "L", "o", "w", ",", " ", "H", "i", "g", "h">>,
      <<"p", "l", "a", "i", "n">>,
      <<>> }

\* lines.join('\n')
RECURSIVE JoinLines(_)
JoinLines(lines) ==
    IF lines = <<>> THEN <<>>
    ELSE IF Len(lines) = 1 THEN lines[1]
    ELSE lines[1] \o <<"\n">> \o JoinLines(Tail(lines))

PlanTexts == {JoinLines(ls) : ls \in SeqsUpTo(LinePool, MaxLines)}

InitParse ==
    /\ AppIdle
    /\ input \in PlanTexts
    /\ step = "text"
    /\ out = NoOutput

ParseText ==
    /\ step = "text"
    /\ out' = [out EXCEPT !.parsed = parseImplementationPlan(input)]
    /\ step' = "parsedText"
    /\ UNCHANGED <<input, appVars>>

NextParse == ParseText

SpecParse == InitParse /\ [][NextParse]_vars

-----------------------------------------------------------------------------
(* Properties of the parser (SpecParse)                                    *)

\* The line with leading and trailing blanks removed.
Stripped(line) ==
    LET kept == {i \in 1..Len(line) : line[i] # " "}
    IN  IF kept = {} THEN <<>>
        ELSE SubSeq(line, CHOOSE i \in kept : \A j \in kept : i <= j,
                          CHOOSE i \in kept : \A j \in kept : i >= j)

IsStatusLine(line) == StartsWith(Stripped(line), <<"#", " ">>)
IsPhaseLine(line)  == StartsWith(Stripped(line), <<"#", "#", " ">>)
IsItemLine(line)   == StartsWith(Stripped(line), <<"-", " ">>)

\* The one-based indices of the list-item lines, in line order.
ItemLineIndices(lines) ==
    SelectSeq([i \in 1..Len(lines) |-> i], LAMBDA i : IsItemLine(lines[i]))

MaxOf(S) == CHOOSE x \in S : \A y \in S : x >= y

\* The phase in effect at line n: the label of the last '## ' line after
\* the last '# ' line above n, or General.
PhaseInEffect(lines, n) ==
    LET statusAbove == {i \in 1..(n - 1) : IsStatusLine(lines[i])}
        from        == IF statusAbove = {} THEN 0 ELSE MaxOf(statusAbove)
        phaseSince  == {i \in (from + 1)..(n - 1) : IsPhaseLine(lines[i])}
    IN  IF phaseSince = {} THEN <<"G", "e", "n", "e", "r", "a", "l">>
        ELSE Stripped(Substring(Stripped(lines[MaxOf(phaseSince)]), 3))

\* C9: every parsed task's phase is the trimmed text of the most recent
\* '## ' line that follows the most recent '# ' line above the task, and
\* General when there is none: a '# ' line resets the phase, whatever
\* status it names.
C9_StatusResetsPhase ==
    step = "parsedText" =>
        LET lines == TextLines(input)
            at    == ItemLineIndices(lines)
        IN  /\ Len(out.parsed) = Len(at)
            /\ \A k \in 1..Len(at) :
                 out.parsed[k].phase = PhaseInEffect(lines, at[k])

\* C9 witness: a task below a '# ' line that itself follows a '## ' line;
\* the task's phase is General.
C9_Witness ==
    /\ step = "parsedText"
    /\ LET lines == TextLines(input) IN
       /\ Len(lines) = 3
       /\ IsPhaseLine(lines[1]) /\ IsStatusLine(lines[2]) /\ IsItemLine(lines[3])
       /\ Len(out.parsed) = 1
       /\ out.parsed[1].phase = <<"G", "e", "n", "e", "r", "a", "l">>

\* The fields of a list-item line, each trimmed; a field is missing when
\* the line has no such field or the field is empty.
LineFields(line) ==
    LET parts == Split(Substring(Stripped(line), 2), ",")
    IN  [f \in 1..Len(parts) |-> Stripped(parts[f])]

Missing(fields, f) == f > Len(fields) \/ fields[f] = <<>>

Decimal == <<"0", "1", "2", "3", "4", "5", "6", "7", "8", "9">>

\* C10: a list-item line with missing or empty fields yields subPhase '',
\* id 'partial-<n>' (n the zero-based index of the line among all lines),
\* description '...' and priority None for the fields that are missing;
\* with no heading above it the task has status Backlog and phase General.
C10_DefaultFallback ==
    step = "parsedText" =>
        LET lines == TextLines(input)
            at    == ItemLineIndices(lines)
        IN  /\ Len(out.parsed) = Len(at)
            /\ \A k \in 1..Len(at) :
                 LET fields == LineFields(lines[at[k]])
                     t      == out.parsed[k]
                 IN  /\ Missing(fields, 1) => t.subPhase = <<>>
                     /\ Missing(fields, 2) =>
                          t.id = <<"p", "a", "r", "t", "i", "a", "l", "-">> \o
                                 <<Decimal[at[k]]>>
                     /\ Missing(fields, 3) => t.description = <<".", ".", ".">>
                     /\ Missing(fields, 4) => t.priority = <<"N", "o", "n", "e">>
                     /\ (\A i \in 1..(at[k] - 1) : ~IsStatusLine(lines[i])) =>
                          t.status = <<"B", "a", "c", "k", "l", "o", "g">>
                     /\ (\A i \in 1..(at[k] - 1) :
                            ~IsStatusLine(lines[i]) /\ ~IsPhaseLine(lines[i])) =>
                          t.phase = <<"G", "e", "n", "e", "r", "a", "l">>

\* C10 witness: '- , , ,' on the third line with no heading above it gives
\* the task ('', 'partial-2', '...', None, Backlog, General).
C10_Witness ==
    /\ step = "parsedText"
    /\ LET lines == TextLines(input) IN
       /\ Len(lines) = 3
       /\ lines[3] = <<"-", " ", ",", " ", ",", " ", ",">>
       /\ ~IsItemLine(lines[1]) /\ ~IsItemLine(lines[2])
       /\ out.parsed =
            << [ subPhase |-> <<>>,
                 id |-> <<"p", "a", "r", "t", "i", "a", "l", "-", "2">>,
                 description |-> <<".", ".", ".">>,
                 priority |-> <<"N", "o", "n", "e">>,
                 status |-> <<"B", "a", "c", "k", "l", "o", "g">>,
                 phase |-> <<"G", "e", "n", "e", "r", "a", "l">>,
                 subProjectId |-> <<"undefined">> ] >>

\* The '# ' line in effect at line n: the last one above n, 0 for none.
StatusLineInEffect(lines, n) ==
    LET above == {i \in 1..(n - 1) : IsStatusLine(lines[i])}
    IN  IF above = {} THEN 0 ELSE MaxOf(above)

\* The text of a '# ' line after the marker.
HeadingText(line) == Stripped(Substring(Stripped(line), 2))

Unpunctuated(s) == SelectSeq(s, LAMBDA c : c \notin {"-", " "})

\* The names of the statuses, without hyphen and space.
StatusNames ==
    { <<"B", "a", "c", "k", "l", "o", "g">>, <<"T", "o", "D", "o">>,
      <<"I", "n", "P", "r", "o", "g", "r", "e", "s", "s">>,
      <<"R", "e", "v", "i", "e", "w">>, <<"D", "o", "n", "e">>,
      <<"F", "u", "t", "u", "r", "e">> }

PriorityNames ==
    { <<"H", "i", "g", "h">>, <<"M", "e", "d", "i", "u", "m">>, <<"L", "o", "w">>,
      <<"N", "o", "n", "e">> }

\* C11: every parsed task has one of the six statuses and one of the four
\* priorities; below a '# ' heading whose text is no status name its status
\* is Backlog, and with a priority field that is no priority name its
\* priority is None.
C11_EnumFallback ==
    step = "parsedText" =>
        LET lines == TextLines(input)
            at    == ItemLineIndices(lines)
        IN  \A k \in 1..Len(out.parsed) :
               LET t == out.parsed[k]
                   h == StatusLineInEffect(lines, at[k])
                   fields == LineFields(lines[at[k]])
               IN  /\ IsStatus(t.status)
                   /\ t.priority \in PriorityNames
                   /\ (h # 0 /\ Unpunctuated(HeadingText(lines[h])) \notin StatusNames)
                         => t.status = <<"B", "a", "c", "k", "l", "o", "g">>
                   /\ (~Missing(fields, 4) /\ fields[4] \notin PriorityNames)
                         => t.priority = <<"N", "o", "n", "e">>

\* C12: the parser returns one task for every list-item line, in line
\* order (the task's sub-phase is the line's first field), with the status
\* set by the last '# ' line above it (Backlog for none) and the phase in
\* effect there, and nothing else; lines of another kind change neither;
\* the empty text gives the empty list.
C12_OneTaskPerItemLine ==
    step = "parsedText" =>
        LET lines == TextLines(input)
            at    == ItemLineIndices(lines)
        IN  /\ Len(out.parsed) = Len(at)
            /\ input = <<>> => out.parsed = <<>>
            /\ \A k \in 1..Len(at) :
                 LET t == out.parsed[k]
                     h == StatusLineInEffect(lines, at[k])
                     fields == LineFields(lines[at[k]])
                 IN  /\ t.subPhase = IF Missing(fields, 1) THEN <<>> ELSE fields[1]
                     /\ t.status = IF h = 0 THEN <<"B", "a", "c", "k", "l", "o", "g">>
                                   ELSE getStatusFromString(HeadingText(lines[h]))
                     /\ t.phase = PhaseInEffect(lines, at[k])

\* C12 witness: a phase heading, a line of another kind, a list-item line:
\* one task, in that phase.
C12_Witness ==
    /\ step = "parsedText"
    /\ LET lines == TextLines(input) IN
       /\ Len(lines) = 3
       /\ IsPhaseLine(lines[1])
       /\ lines[2] = <<"p", "l", "a", "i", "n">>
       /\ IsItemLine(lines[3])
       /\ Len(out.parsed) = 1
       /\ out.parsed[1].phase = <<"A", "l", "p", "h", "a">>

-----------------------------------------------------------------------------
(* projectService.ts: the colour service                                   *)

\* Math.round((index / total) * 360), exact for the totals the model reaches
\* (the quotient is then far enough from a half for the floating-point
\* product to round the same way).
generateRainbowColor(index, total, saturation, lightness) ==
    <<(720 * index + total) \div (2 * total), saturation, lightness>>

\* !colors[label]: a stored colour is a non-empty string, and a label that
\* names a member inherited from Object.prototype reads as a function; both
\* are truthy.
HasColor(colors, label) == label \in DOMAIN colors \/ label \in ObjectPrototypeKeys

\* uniqueLabels.forEach(label => { if (!colors[label]) colors[label] = ... }),
\* from position i on
RECURSIVE AssignEach(_, _, _, _, _)
AssignEach(colors, uniqueLabels, i, saturation, lightness) ==
    IF i > Len(uniqueLabels) THEN colors
    ELSE LET label == uniqueLabels[i]
             size  == Cardinality(DOMAIN colors)
             next  == IF HasColor(colors, label) THEN colors
                      ELSE colors @@ (label :>
                               generateRainbowColor(size, Len(uniqueLabels) + size,
                                                    saturation, lightness))
         IN  AssignEach(next, uniqueLabels, i + 1, saturation, lightness)

\* [...new Set(tasks.map(t => t.phase))]
UniquePhases(ts) == InsertionOrder(Map(LAMBDA t : t.phase, ts))

UniqueSubPhases(ts) == InsertionOrder(Map(LAMBDA t : t.subPhase, ts))

assignColors(ts, existingPhaseColors, existingSubPhaseColors) ==
    [ phaseColors    |-> AssignEach(existingPhaseColors, UniquePhases(ts), 1, 90, 45),
      subPhaseColors |-> AssignEach(existingSubPhaseColors, UniqueSubPhases(ts), 1, 70, 80) ]

\* {}
EmptyObject == <<>>

-----------------------------------------------------------------------------
(* assignColors applied to drawn task lists, each call starting from the    *)
(* maps the call before returned, as the callers in App.tsx pass them.      *)

MaxColourTasks == 2

MaxCalls == 3

\* Tasks by their labels: letters, the empty sub-phase, and labels that name
\* members inherited from Object.prototype.
ColourPool ==
    { Task(<<"S">>, <<"X">>, <<"d">>, High, ToDo, <<"A">>, Undefined),
      Task(<<"R">>, <<"Y">>, <<"d">>, Low, ToDo, <<"B">>, Undefined),
      Task(<<>>, <<"Z">>, <<"d">>, None, Backlog, <<"C">>, Undefined),
      Task(<<"S">>, <<"T">>, <<"d">>, High, Review,
           <<"v", "a", "l", "u", "e", "O", "f">>, Undefined),
      Task(<<"t", "o", "S", "t", "r", "i", "n", "g">>, <<"U">>, <<"d">>, High, Done,
           <<"A">>, Undefined) }

ColourTaskLists == SeqsUpTo(ColourPool, MaxColourTasks)

InitColors ==
    /\ plan = Idle /\ tasks = Idle /\ projects = Idle /\ effect = Idle
    /\ clock = Idle /\ last = Idle
    /\ phaseColors = EmptyObject /\ subPhaseColors = EmptyObject
    /\ events = 1
    /\ input \in ColourTaskLists
    /\ step = "tasks"
    /\ out = Idle

\* const { phaseColors, subPhaseColors } = assignColors(tasks, project.phaseColors,
\*                                                      project.subPhaseColors)
AssignColors ==
    /\ step = "tasks"
    /\ out' = assignColors(input, phaseColors, subPhaseColors)
    /\ step' = "coloured"
    /\ UNCHANGED <<input, appVars>>

\* updateProject({ ...project, phaseColors, subPhaseColors }), and the next
\* call with the tasks the project then has.
StoreColors ==
    /\ step = "coloured"
    /\ events < MaxCalls
    /\ events' = events + 1
    /\ phaseColors' = out.phaseColors
    /\ subPhaseColors' = out.subPhaseColors
    /\ input' \in ColourTaskLists
    /\ step' = "tasks"
    /\ out' = Idle
    /\ UNCHANGED <<plan, tasks, projects, effect, clock, last>>

NextColors == AssignColors \/ StoreColors

SpecColors == InitColors /\ [][NextColors]_vars

\* C20: assignColors changes and removes no entry of the maps it is given,
\* and every phase and sub-phase label of the given tasks has a colour in
\* the maps it returns.
C20_ColorsKeptAndComplete ==
    step = "coloured" =>
        /\ \A l \in DOMAIN phaseColors :
              l \in DOMAIN out.phaseColors /\ out.phaseColors[l] = phaseColors[l]
        /\ \A l \in DOMAIN subPhaseColors :
              l \in DOMAIN out.subPhaseColors /\ out.subPhaseColors[l] = subPhaseColors[l]
        /\ \A i \in 1..Len(input) :
              /\ input[i].phase \in DOMAIN out.phaseColors
              /\ input[i].subPhase \in DOMAIN out.subPhaseColors

\* No two labels of a colour map hold the same colour.
DistinctColors(colors) ==
    \A l, m \in DOMAIN colors : colors[l] = colors[m] => l = m

\* C21: over a sequence of assignColors calls that starts from empty maps,
\* no two different phase labels ever hold the same colour, and no two
\* different sub-phase labels.
C21_NewLabelsGetUnusedSlots ==
    step = "coloured" =>
        DistinctColors(out.phaseColors) /\ DistinctColors(out.subPhaseColors)

-----------------------------------------------------------------------------
(* App.tsx: task objects as JSON.stringify sees them                       *)

\* Property order of a task built by the parser's object literal.
ParsedKeyOrder == <<"subPhase", "id", "description", "priority", "status", "phase">>

\* Property order of a task built by handleCreateTaskFromSelection.
FormKeyOrder == <<"id", "description", "status", "phase", "subPhase", "priority">>

WithKeys(t, keyOrder) ==
    [ subPhase |-> t.subPhase, id |-> t.id, description |-> t.description,
      priority |-> t.priority, status |-> t.status, phase |-> t.phase,
      subProjectId |-> t.subProjectId, keys |-> keyOrder ]

\* The tasks the parser returns, as objects.
ParsedObjects(text) ==
    Map(LAMBDA t : WithKeys(t, ParsedKeyOrder), parseImplementationPlan(text))

\* JSON.stringify of a task: its properties in their order, subProjectId
\* after them, without those whose value is undefined or a function.
StringifyTask(t) ==
    SelectSeq([i \in 1..(Len(t.keys) + 1) |->
                  IF i <= Len(t.keys) THEN <<t.keys[i], t[t.keys[i]]>>
                  ELSE <<"subProjectId", t.subProjectId>>],
              LAMBDA p : p[2] # Undefined /\ ~IsFunctionValue(p[2]))

JSONStringify(ts) == Map(StringifyTask, ts)

\* s.toLowerCase(), for the letters the model's ids use
UpperCase == <<"A", "B", "K", "N", "S", "T", "X", "Y">>
LowerCase == <<"a", "b", "k", "n", "s", "t", "x", "y">>

ToLowerCase(s) ==
    Map(LAMBDA c : IF \E k \in 1..Len(UpperCase) : UpperCase[k] = c
                   THEN LowerCase[CHOOSE k \in 1..Len(UpperCase) : UpperCase[k] = c]
                   ELSE c, s)

\* s.replace(/\n/g, ' ')
FlattenNewlines(s) == Map(LAMBDA c : IF c = "\n" THEN " " ELSE c, s)

\* A card of the board: the columns show the tasks whose status is theirs.
OnBoard(t) == \E k \in 1..Len(KANBAN_COLUMNS) : KANBAN_COLUMNS[k] = t.status
-----------------------------------------------------------------------------
(* The application: one open project, its documents, board and sync effect *)

\* Most user events of a run.
MaxEvents == 4

\* Longest task list the create form is used on.
MaxBoardTasks == 3

\* Most sub-projects created by drill-down.
MaxSubProjects == 2

\* The plan of a project made by handleAddProject.
InitialPlan ==
    JoinLines(<< <<"#", " ", "B", "a", "c", "k", "l", "o", "g">>,
                 <<"#", "#", " ", "G", "e", "n", "e", "r", "a", "l">>,
                 <<"-", " ", "I", "n", "i", "t", "i", "a", "l", " ", "T", "a", "s", "k",
                   ",", " ", "T", "A", "S", "K", "-", "0", "1", ",", " ",
                   "S", "e", "t", "u", "p", " ", "p", "r", "o", "j", "e", "c", "t", " ",
                   "s", "t", "r", "u", "c", "t", "u", "r", "e", ",", " ",
                   "H", "i", "g", "h">>,
                 <<>> >>)

LineToDo    == <<"#", " ", "T", "o", "-", "D", "o">>
LineDone    == <<"#", " ", "D", "o", "n", "e">>
LinePhaseA  == <<"#", "#", " ", "A">>
LineValueOf == <<"#", "#", " ", "v", "a", "l", "u", "e", "O", "f">>
LineX       == <<"-", " ", "S", ",", " ", "X", ",", " ", "d", ",", " ", "H", "i", "g", "h">>
LineY       == <<"-", " ", "S", ",", " ", "Y", ",", " ", "e", ",", " ", "L", "o", "w">>
LineX2      == <<"-", " ", "S", ",", " ", "X", ",", " ", "e", ",", " ", "L", "o", "w">>
LinePartial == <<"-", " ", "S">>

\* Texts typed into the plan editor: two tasks, one of them removed, the
\* same id twice, a line still being typed, a phase named valueOf.
EditorTexts ==
    { JoinLines(<<LineToDo, LinePhaseA, LineX, LineY>>),
      JoinLines(<<LineToDo, LinePhaseA, LineX>>),
      JoinLines(<<LineDone, LinePhaseA, LineX, LineX2>>),
      JoinLines(<<LinePartial>>),
      JoinLines(<<LineValueOf, LineY>>) }

\* Plans of imported documents: the project's first plan again, another plan.
ImportTexts ==
    { InitialPlan,
      JoinLines(<<LineToDo, LinePhaseA, LineX, LineY>>) }

\* Columns a dragged card is dropped on.
DropColumns == { ToDo, Done }

\* What the edit form is saved with: one field of the task retyped.
FormEdits ==
    { [ name |-> "id", value |-> <<"Y">> ],
      [ name |-> "id", value |-> <<"N">> ],
      [ name |-> "description", value |-> <<"z">> ] }

\* What the create form can be submitted with.
CreateForms ==
    [ id : { <<"N">>, <<" ", "X">>, <<"x">> },
      description : { <<"n", "\n", "m">> },
      phase : { <<"A">> }, subPhase : { <<"S">> },
      priority : { Medium }, status : { Backlog } ]
    \cup
    [ id : { <<"N">> }, description : { <<"n">> }, phase : { <<"A">> },
      subPhase : { <<>> }, priority : { Medium }, status : { Backlog } ]

ProjectId(n) == <<"p", "r", "o", "j", "-">> \o NumberToString(n)

NoSync == [ parsed |-> Idle, previous |-> Idle, merged |-> Idle, committed |-> FALSE ]

Did(op, id, threw) ==
    [ op |-> op, id |-> id, threw |-> threw, sync |-> NoSync ]

\* handleAddProject, then the project is opened: ProjectView mounts and its
\* effect is due.
Init ==
    /\ plan = InitialPlan
    /\ tasks = ParsedObjects(InitialPlan)
    /\ LET c == assignColors(ParsedObjects(InitialPlan), EmptyObject, EmptyObject)
       IN  phaseColors = c.phaseColors /\ subPhaseColors = c.subPhaseColors
    /\ projects = {}
    /\ clock = 0
    /\ events = 0
    /\ effect = TRUE
    /\ last = Did("open", Idle, FALSE)
    /\ input = Idle /\ step = "app" /\ out = NoOutput

\* Mutant of SyncEffect: the project is updated without the comparison.
SyncEffect_AlwaysCommits ==
    /\ effect = TRUE
    /\ \E newTasksFromPlan \in {ParsedObjects(plan)} :
       \E mergedTasks \in {MergeTasks(newTasksFromPlan, tasks)} :
       \E c \in {assignColors(mergedTasks, phaseColors, subPhaseColors)} :
           /\ tasks' = mergedTasks
           /\ phaseColors' = c.phaseColors
           /\ subPhaseColors' = c.subPhaseColors
           /\ effect' = TRUE
           /\ last' = [ op |-> "sync", id |-> Idle, threw |-> FALSE,
                        sync |-> [ parsed |-> newTasksFromPlan, previous |-> tasks,
                                   merged |-> mergedTasks, committed |-> TRUE ] ]
    /\ UNCHANGED <<plan, projects, clock, events, fnVars>>

\* The ProjectView sync effect.
SyncEffect ==
    /\ effect = TRUE
    /\ \E newTasksFromPlan \in {ParsedObjects(plan)} :
       \E mergedTasks \in {MergeTasks(newTasksFromPlan, tasks)} :
       \E c \in {assignColors(mergedTasks, phaseColors, subPhaseColors)} :
       \E differs \in {\/ JSONStringify(mergedTasks) # JSONStringify(tasks)
                       \/ c.phaseColors # phaseColors
                       \/ c.subPhaseColors # subPhaseColors} :
           /\ tasks' = IF differs THEN mergedTasks ELSE tasks
           /\ phaseColors' = IF differs THEN c.phaseColors ELSE phaseColors
           /\ subPhaseColors' = IF differs THEN c.subPhaseColors ELSE subPhaseColors
           /\ effect' = differs
           /\ last' = [ op |-> "sync", id |-> Idle, threw |-> FALSE,
                        sync |-> [ parsed |-> newTasksFromPlan, previous |-> tasks,
                                   merged |-> mergedTasks, committed |-> differs ] ]
    /\ UNCHANGED <<plan, projects, clock, events, fnVars>>

\* A user event is handled once the effects of the last render have run.
UserEvent ==
    /\ effect = FALSE
    /\ events < MaxEvents
    /\ events' = events + 1

\* handleContentChange('implementation', content)
HandleContentChange ==
    /\ UserEvent
    /\ \E content \in EditorTexts :
          /\ content # plan
          /\ plan' = content
    /\ effect' = TRUE
    /\ last' = Did("edit text", Idle, FALSE)
    /\ UNCHANGED <<tasks, phaseColors, subPhaseColors, projects, clock, fnVars>>

\* updateTasksAndPlan(newTasks); an error raised by the generator leaves
\* the project as it was.
updateTasksAndPlan(newTasks, op, id) ==
    \E newPlan \in {generateImplementationPlanText(newTasks)} :
    \E c \in {assignColors(newTasks, phaseColors, subPhaseColors)} :
        /\ plan' = IF newPlan.threw THEN plan ELSE newPlan.text
        /\ tasks' = IF newPlan.threw THEN tasks ELSE newTasks
        /\ phaseColors' = IF newPlan.threw THEN phaseColors ELSE c.phaseColors
        /\ subPhaseColors' = IF newPlan.threw THEN subPhaseColors ELSE c.subPhaseColors
        /\ effect' = ~newPlan.threw
        /\ last' = Did(op, id, newPlan.threw)
        /\ UNCHANGED <<projects, clock, fnVars>>

\* handleTaskMove(taskId, newStatus): a card dropped on a column.
HandleTaskMove ==
    /\ UserEvent
    /\ \E i \in 1..Len(tasks), newStatus \in DropColumns :
          /\ OnBoard(tasks[i])
          /\ LET taskId == tasks[i].id
             IN  updateTasksAndPlan(
                     Map(LAMBDA t : IF t.id = taskId
                                    THEN [t EXCEPT !.status = newStatus] ELSE t, tasks),
                     "move", taskId)

\* handleTaskDelete(task.id): the context menu of a card.
HandleTaskDelete ==
    /\ UserEvent
    /\ \E i \in 1..Len(tasks) :
          /\ OnBoard(tasks[i])
          /\ LET taskId == tasks[i].id
             IN  updateTasksAndPlan(SelectSeq(tasks, LAMBDA t : t.id # taskId),
                                    "delete", taskId)

\* handleTaskUpdate(updatedTask): the edit form of a card, saved.
HandleTaskUpdate ==
    /\ UserEvent
    /\ \E i \in 1..Len(tasks) :
          /\ OnBoard(tasks[i])
          /\ \E edit \in FormEdits :
                LET updatedTask == [tasks[i] EXCEPT ![edit.name] = edit.value]
                IN  updateTasksAndPlan(
                        Map(LAMBDA t : IF t.id = updatedTask.id THEN updatedTask ELSE t,
                            tasks),
                        "update", tasks[i].id)

\* ImplementTaskForm.handleSubmit: the submission reaches onSave.
Submits(formData) ==
    /\ formData.id # <<>> /\ formData.phase # <<>>
    /\ formData.subPhase # <<>> /\ formData.description # <<>>
    /\ ~\E i \in 1..Len(tasks) : ToLowerCase(tasks[i].id) = ToLowerCase(formData.id)

\* handleCreateTaskFromSelection(taskData), the form submitted.
HandleCreateTaskFromSelection ==
    /\ UserEvent
    /\ Len(tasks) < MaxBoardTasks
    /\ \E taskData \in CreateForms :
          IF Submits(taskData)
          THEN LET newTask ==
                     [ id |-> Trim(taskData.id),
                       description |-> FlattenNewlines(taskData.description),
                       status |-> taskData.status,
                       phase |-> Trim(taskData.phase),
                       subPhase |-> Trim(taskData.subPhase),
                       priority |-> taskData.priority,
                       subProjectId |-> Undefined,
                       keys |-> FormKeyOrder ]
               IN  updateTasksAndPlan(Append(tasks, newTask), "create", newTask.id)
          ELSE /\ last' = Did("create rejected", taskData.id, FALSE)
               /\ UNCHANGED <<plan, tasks, phaseColors, subPhaseColors, projects,
                              effect, clock, fnVars>>

\* Mutant of HandleTaskDrillDown: the sub-project is created without the
\* lookup of an existing one.
HandleTaskDrillDown_AlwaysCreates ==
    /\ UserEvent
    /\ \E i \in 1..Len(tasks) :
          LET task == tasks[i] IN
          /\ OnBoard(task)
          /\ clock < MaxSubProjects
          /\ clock' = clock + 1
          /\ projects' = projects \cup {ProjectId(clock + 1)}
          /\ tasks' = Map(LAMBDA t :
                        IF t.id = task.id
                        THEN [task EXCEPT !.subProjectId = ProjectId(clock + 1)]
                        ELSE t, tasks)
          /\ last' = Did("drill down", task.id, FALSE)
    /\ effect' = TRUE
    /\ UNCHANGED <<plan, phaseColors, subPhaseColors, fnVars>>

\* handleTaskDrillDown(task, parentProjectId): a card double-clicked.  The
\* sub-project becomes the active one; the effect of the parent's view is
\* due when the parent is opened again.
HandleTaskDrillDown ==
    /\ UserEvent
    /\ \E i \in 1..Len(tasks) :
          LET task == tasks[i] IN
          /\ OnBoard(task)
          /\ IF task.subProjectId \in projects
             THEN UNCHANGED <<tasks, projects, clock>>
             ELSE /\ clock < MaxSubProjects
                  /\ clock' = clock + 1
                  /\ projects' = projects \cup {ProjectId(clock + 1)}
                  /\ tasks' = Map(LAMBDA t :
                                IF t.id = task.id
                                THEN [task EXCEPT !.subProjectId = ProjectId(clock + 1)]
                                ELSE t, tasks)
          /\ last' = Did("drill down", task.id, FALSE)
    /\ effect' = TRUE
    /\ UNCHANGED <<plan, phaseColors, subPhaseColors, fnVars>>

\* handleDeleteProject(id), for a sub-project: from the dashboard.
HandleDeleteProject ==
    /\ UserEvent
    /\ \E id \in projects : projects' = projects \ {id}
    /\ effect' = TRUE
    /\ last' = Did("delete project", Idle, FALSE)
    /\ UNCHANGED <<plan, tasks, phaseColors, subPhaseColors, clock, fnVars>>

\* handleImportProject(data) with the open project as its target: from the
\* dashboard.
HandleImportProject ==
    /\ UserEvent
    /\ \E implementationPlan \in ImportTexts :
          LET newTasks == ParsedObjects(implementationPlan)
              c == assignColors(newTasks, phaseColors, subPhaseColors)
          IN  /\ plan' = implementationPlan
              /\ tasks' = newTasks
              /\ phaseColors' = c.phaseColors
              /\ subPhaseColors' = c.subPhaseColors
    /\ effect' = TRUE
    /\ last' = Did("import", Idle, FALSE)
    /\ UNCHANGED <<projects, clock, fnVars>>

Next ==
    \/ SyncEffect
    \/ HandleContentChange
    \/ HandleTaskMove
    \/ HandleTaskDelete
    \/ HandleTaskUpdate
    \/ HandleCreateTaskFromSelection
    \/ HandleTaskDrillDown
    \/ HandleDeleteProject
    \/ HandleImportProject

Spec == Init /\ [][Next]_vars

------------------------------------------------------------------------------
(* The sync effect run from a project as it may be loaded: any plan text    *)
(* with any stored task list and colour maps.                               *)

MaxStoredTasks == 2

\* Stored tasks: with and without link, the same id with different links, a
\* task object in the create form's key order, a placeholder task.
StoredPool ==
    { WithKeys(Task(<<"S">>, <<"X">>, <<"d">>, High, ToDo, <<"A">>, Undefined),
               ParsedKeyOrder),
      WithKeys(Task(<<"S">>, <<"X">>, <<"d">>, High, Done, <<"A">>, ProjectId(1)),
               ParsedKeyOrder),
      WithKeys(Task(<<"S">>, <<"X">>, <<"d">>, High, Done, <<"A">>, ProjectId(2)),
               ParsedKeyOrder),
      WithKeys(Task(<<"S">>, <<"Y">>, <<"e">>, Low, ToDo, <<"A">>, Undefined),
               FormKeyOrder),
      WithKeys(Task(<<"S">>, <<"p", "a", "r", "t", "i", "a", "l", "-", "0">>, Ellipsis,
                    None, Backlog, General, ProjectId(1)),
               ParsedKeyOrder) }

StoredColors(label) == { EmptyObject, label :> <<120, 90, 45>> }

InitSync ==
    /\ plan \in EditorTexts
    /\ tasks \in SeqsUpTo(StoredPool, MaxStoredTasks)
    /\ phaseColors \in StoredColors(<<"A">>)
    /\ subPhaseColors \in StoredColors(<<"R">>)
    /\ projects = {ProjectId(1), ProjectId(2)}
    /\ clock = 2
    /\ events = 0
    /\ effect = TRUE
    /\ last = Did("open", Idle, FALSE)
    /\ input = Idle /\ step = "app" /\ out = NoOutput

NextSync == SyncEffect

SpecSync == InitSync /\ [][NextSync]_vars

\* C25: the sync converges after at most one commit: the run that follows a
\* commit finds the merged tasks and both colour maps equal to the stored
\* ones and commits nothing.
C25_SyncConverges ==
    [][ (last.op = "sync" /\ last.sync.committed /\ effect = TRUE) =>
            /\ ~last'.sync.committed
            /\ UNCHANGED <<plan, tasks, phaseColors, subPhaseColors>> ]_vars

\* Both parsed tasks of id X carry the link of the first stored X: the sync
\* has committed, and has run again without committing.
C25_Witness ==
    /\ last.op = "sync" /\ ~last.sync.committed /\ effect = FALSE
    /\ Len(tasks) = 2
    /\ tasks[1].id = <<"X">> /\ tasks[2].id = <<"X">>
    /\ tasks[2].description = <<"e">>
    /\ tasks[1].subProjectId = ProjectId(2) /\ tasks[2].subProjectId = ProjectId(2)
    /\ phaseColors # EmptyObject

-----------------------------------------------------------------------------
(* Properties of the sync effect and of the handlers (Spec)                *)

Linked(t) == t.subProjectId # <<"undefined">>

HasId(ts, id) == \E j \in 1..Len(ts) : ts[j].id = id

\* C3: over the project operations, a task id that carries a sub-project
\* link and is still in the task list after a step, and that the step
\* neither deleted nor drilled into, still carries that link after it.
C3_LinksSurvive ==
    [][ \A i \in 1..Len(tasks) :
          ( /\ Linked(tasks[i])
            /\ HasId(tasks', tasks[i].id)
            /\ ~(last'.op \in {"delete", "drill down"} /\ last'.id = tasks[i].id) )
          => \E j \in 1..Len(tasks') :
                /\ tasks'[j].id = tasks[i].id
                /\ tasks'[j].subProjectId = tasks[i].subProjectId ]_vars

\* C4: in every run of the sync, a parsed task whose id some previous task
\* with a link has gets the link of such a previous task, and a parsed task
\* whose id no previous task has gets none.
C4_MergeCopiesLink ==
    last.op = "sync" =>
        \A i \in 1..Len(last.sync.parsed) :
            LET previous == last.sync.previous
                same   == {j \in 1..Len(previous) : previous[j].id = last.sync.parsed[i].id}
                linked == {j \in same : previous[j].subProjectId # <<"undefined">>}
            IN  /\ linked # {} =>
                      last.sync.merged[i].subProjectId \in
                          {previous[j].subProjectId : j \in linked}
                /\ same = {} => last.sync.merged[i].subProjectId = <<"undefined">>

\* C4 witness: a sync whose previous list has two linked tasks of one id,
\* with a parsed task of that id that got the link and a parsed task of a
\* new id that got none.
C4_Witness ==
    /\ last.op = "sync"
    /\ \E i, k \in 1..Len(last.sync.parsed) :
          /\ Cardinality({j \in 1..Len(last.sync.previous) :
                             /\ last.sync.previous[j].id = last.sync.parsed[i].id
                             /\ last.sync.previous[j].subProjectId = ProjectId(1)}) >= 2
          /\ last.sync.merged[i].subProjectId = ProjectId(1)
          /\ ~HasId(last.sync.previous, last.sync.parsed[k].id)
          /\ last.sync.merged[k].subProjectId = <<"undefined">>

TextFields == {"subPhase", "id", "description", "priority", "status", "phase", "keys"}

\* C5: in every run of the sync the merged list is as long as the parsed
\* list, its tasks agree with the parsed tasks, position by position, on
\* every field but subProjectId, and no id of the previous list that the
\* parse lacks is in it.
C5_MergeFrame ==
    last.op = "sync" =>
        /\ Len(last.sync.merged) = Len(last.sync.parsed)
        /\ \A i \in 1..Len(last.sync.parsed) : \A f \in TextFields :
              last.sync.merged[i][f] = last.sync.parsed[i][f]
        /\ \A j \in 1..Len(last.sync.previous) :
              ~HasId(last.sync.parsed, last.sync.previous[j].id)
                  => ~HasId(last.sync.merged, last.sync.previous[j].id)

\* C5 witness: a sync that parsed two tasks, copied a link onto one of
\* them, and whose previous list had a linked task of an id the text lacks.
C5_Witness ==
    /\ last.op = "sync"
    /\ Len(last.sync.parsed) = 2
    /\ \E i \in 1..2 : Linked(last.sync.merged[i])
    /\ \E j \in 1..Len(last.sync.previous) :
          /\ Linked(last.sync.previous[j])
          /\ ~HasId(last.sync.parsed, last.sync.previous[j].id)

\* A text without the first occurrence of c.
FirstRemoved(s, c) ==
    LET kept == SelectSeq([i \in 1..Len(s) |-> i],
                          LAMBDA i : ~(s[i] = c /\ \A j \in 1..(i - 1) : s[j] # c))
    IN  [i \in 1..Len(kept) |-> s[kept[i]]]

\* The text of a heading as the lookup reads it.
HeadingKey(line) == FirstRemoved(FirstRemoved(HeadingText(line), "-"), " ")

\* The statuses by the names of their members.
StatusOfMember ==
    ( <<"B", "a", "c", "k", "l", "o", "g">> :> <<"B", "a", "c", "k", "l", "o", "g">> ) @@
    ( <<"T", "o", "D", "o">> :> <<"T", "o", "-", "D", "o">> ) @@
    ( <<"I", "n", "P", "r", "o", "g", "r", "e", "s", "s">> :>
          <<"I", "n", " ", "P", "r", "o", "g", "r", "e", "s", "s">> ) @@
    ( <<"R", "e", "v", "i", "e", "w">> :> <<"R", "e", "v", "i", "e", "w">> ) @@
    ( <<"D", "o", "n", "e">> :> <<"D", "o", "n", "e">> ) @@
    ( <<"F", "u", "t", "u", "r", "e">> :> <<"F", "u", "t", "u", "r", "e">> )

\* C19 as claimed: a heading that differs from a status name only in letter
\* case, hyphens or spaces selects that status.
C19_StatusHeadingInsensitive ==
    step = "parsedText" =>
        LET lines == TextLines(input)
            at    == ItemLineIndices(lines)
        IN  \A k \in 1..Len(out.parsed) :
               LET h == StatusLineInEffect(lines, at[k])
               IN  \A n \in 1..Len(CanonicalStatusOrder) :
                      (h # 0 /\ Folded(HeadingText(lines[h])) =
                                Folded(CanonicalStatusOrder[n]))
                         => out.parsed[k].status = CanonicalStatusOrder[n]

\* C19, amended: a heading selects a status by exact match: the status is S
\* when the heading text without its first hyphen and then without its
\* first space is, letter case included, the name of the member of S; any
\* other heading selects none of To-Do, In Progress, Review, Done, Future.
C19_StatusHeadingExact ==
    step = "parsedText" =>
        LET lines == TextLines(input)
            at    == ItemLineIndices(lines)
        IN  \A k \in 1..Len(out.parsed) :
               LET h == StatusLineInEffect(lines, at[k])
                   t == out.parsed[k]
               IN  h # 0 =>
                     IF HeadingKey(lines[h]) \in DOMAIN StatusOfMember
                     THEN t.status = StatusOfMember[HeadingKey(lines[h])]
                     ELSE t.status \notin
                            { <<"T", "o", "-", "D", "o">>,
                              <<"I", "n", " ", "P", "r", "o", "g", "r", "e", "s", "s">>,
                              <<"R", "e", "v", "i", "e", "w">>, <<"D", "o", "n", "e">>,
                              <<"F", "u", "t", "u", "r", "e">> }

\* 'In-Progress' selects In Progress and 'to-do' selects no status.
C19_Witness ==
    /\ step = "parsedText"
    /\ LET lines == TextLines(input) IN
       /\ Len(lines) = 3
       /\ lines[1] = <<"#", " ", "I", "n", "-", "P", "r", "o", "g", "r", "e", "s", "s">>
       /\ lines[2] = <<"#", " ", "t", "o", "-", "d", "o">>
       /\ IsItemLine(lines[3])
       /\ Len(out.parsed) = 1
       /\ out.parsed[1].status = <<"B", "a", "c", "k", "l", "o", "g">>

\* C24: a list-item line with more than four comma-separated fields yields
\* one task built from the first four fields, each trimmed: the fifth and
\* later fields are discarded, and what follows the third comma is read as
\* the priority.
C24_FirstFourFields ==
    step = "parsedText" =>
        LET lines == TextLines(input)
            at    == ItemLineIndices(lines)
        IN  /\ Len(out.parsed) = Len(at)
            /\ \A k \in 1..Len(at) :
                  LET raw == Split(Substring(Stripped(lines[at[k]]), 2), ",")
                      t   == out.parsed[k]
                  IN  Len(raw) > 4 =>
                        /\ t.subPhase = Stripped(raw[1])
                        /\ Stripped(raw[2]) # <<>> => t.id = Stripped(raw[2])
                        /\ Stripped(raw[3]) # <<>> => t.description = Stripped(raw[3])
                        /\ Stripped(raw[4]) \in PriorityNames =>
                              t.priority = Stripped(raw[4])

\* A line of five fields whose fourth and fifth fields both name a priority.
C24_Witness ==
    /\ step = "parsedText"
    /\ LET lines == TextLines(input) IN
       /\ Len(lines) = 2
       /\ IsPhaseLine(lines[1])
       /\ Len(Split(lines[2], ",")) = 5
       /\ Len(out.parsed) = 1
       /\ out.parsed[1].description = <<"a">>
       /\ out.parsed[1].priority = <<"L", "o", "w">>

\* C18: the core never fails: generate returns a text for every task list
\* and parse returns a task list for every text; no call raises an error.
C18_CoreNeverFails ==
    /\ step # "threw"
    /\ step \in {"generated", "parsed", "regenerated"} => ~out.gen.threw
    /\ step = "regenerated" => (~out.regen.threw /\ ~out.regenMerged.threw)

\* C15: in the result of one parse the placeholder ids (those given to the
\* item lines whose id field is missing or empty) are pairwise distinct,
\* and none of them is the id of a task whose id the text writes out.
C15_PlaceholderIdsDistinct ==
    step = "parsedText" =>
        LET lines == TextLines(input)
            at    == ItemLineIndices(lines)
            Placeholder(k) == Missing(LineFields(lines[at[k]]), 2)
        IN  \A k, j \in 1..Len(out.parsed) :
               (k # j /\ Placeholder(k)) => out.parsed[k].id # out.parsed[j].id

BoardMutations == {"move", "update", "delete", "create"}

\* The fields of a task, its sub-project link included.
TaskFields(t) ==
    [ subPhase |-> t.subPhase, id |-> t.id, description |-> t.description,
      priority |-> t.priority, status |-> t.status, phase |-> t.phase,
      subProjectId |-> t.subProjectId ]

\* C13: the sync that runs after a board mutation (move, edit, delete,
\* create) has replaced the plan by generate(newTasks) is a no-op: its
\* merged list is newTasks, task by task and field by field, and it
\* commits nothing.
C13_SyncAfterMutationIsNoOp ==
    [][ (last.op \in BoardMutations /\ ~last.threw /\ last'.op = "sync") =>
            /\ ~last'.sync.committed
            /\ Map(TaskFields, last'.sync.merged) = Map(TaskFields, tasks) ]_vars

\* The stored task list is what the sync computes from the stored plan.
Reconciled ==
    JSONStringify(MergeTasks(ParsedObjects(plan), tasks)) = JSONStringify(tasks)

\* C14: a mutation and its parse, merge and commit are one atomic step:
\* in every committed project state the stored task list is already
\* reconciled with the stored plan text.
C14_MutationAndSyncAtomic == Reconciled

\* C16: placeholder ids are never persisted: in no committed project state
\* does the stored task list hold a task whose id is a placeholder id.
C16_PlaceholdersNeverStored ==
    \A i \in 1..Len(tasks) : ~HasPlaceholderId(tasks[i])

DistinctIds(T) == \A i, j \in 1..Len(T) : T[i].id = T[j].id => i = j

\* C17: creating a task from a selection never adds a task whose id is the
\* id of a task already in the list: a list with pairwise distinct ids has
\* pairwise distinct ids after the creation, and a rejected submission
\* leaves the task list and the plan text as they were.
C17_CreateKeepsIdsDistinct ==
    [][ (events' = events + 1 /\ last'.op \in {"create", "create rejected"}) =>
            /\ DistinctIds(tasks) => DistinctIds(tasks')
            /\ last'.op = "create rejected" => (tasks' = tasks /\ plan' = plan) ]_vars

\* C22: the sync commits only when the merged task list or one of the two
\* colour maps differs from the stored one, and when it does not commit it
\* leaves the whole project state as it was.
C22_CommitOnlyOnDifference ==
    [][ effect = TRUE =>
          /\ last'.sync.committed =>
                \/ Map(TaskFields, last'.sync.merged) # Map(TaskFields, tasks)
                \/ phaseColors' # phaseColors
                \/ subPhaseColors' # subPhaseColors
          /\ ~last'.sync.committed =>
                UNCHANGED <<plan, tasks, phaseColors, subPhaseColors, projects>> ]_vars

\* The last line above line n of a generated text that starts with the
\* given marker and lies below line `from`; the empty text for none.
HeadingAbove(lines, n, from, marker) ==
    LET above == {i \in (from + 1)..(n - 1) : StartsWith(lines[i], marker)}
    IN  IF above = {} THEN 0 ELSE MaxOf(above)

\* The task lines of the block of status s and phase p, in text order.
BlockLines(lines, s, p) ==
    LET at == SelectSeq([i \in 1..Len(lines) |-> i],
                 LAMBDA i :
                    /\ StartsWith(lines[i], <<"-", " ">>)
                    /\ LET h == HeadingAbove(lines, i, 0, <<"#", " ">>)
                       IN  /\ h # 0 /\ lines[h] = HeadingLine(s)
                           /\ LET q == HeadingAbove(lines, i, h, <<"#", "#", " ">>)
                              IN  q # 0 /\ lines[q] = PhaseLine(p))
    IN  [k \in 1..Len(at) |-> lines[at[k]]]

\* C23: inside each phase block the generated text has one line
\* '- <subPhase>, <id>, <description>, <priority>' per written task of that
\* status and phase, in the order the tasks have in the input list, and the
\* parse of the text has one task per task line, in line order.
C23_WithinPhaseOrder ==
    (step # "input" /\ ~out.gen.threw) =>
        LET lines == TextLines(out.gen.text)
            items == SelectSeq(lines, LAMBDA l : StartsWith(l, <<"-", " ">>))
        IN  /\ \A n \in 1..Len(CanonicalStatusOrder) : \A i \in 1..Len(input) :
                 LET s == CanonicalStatusOrder[n]
                     p == input[i].phase
                 IN  BlockLines(lines, s, p) =
                     Map(ExpectedTaskLine,
                         SelectSeq(input, LAMBDA t : /\ t.status = s /\ t.phase = p
                                                     /\ ~HasPlaceholderId(t)))
            /\ step \in {"parsed", "regenerated"} =>
                 /\ Len(out.parsed) = Len(items)
                 /\ \A k \in 1..Len(items) :
                      LET fields == LineFields(items[k])
                      IN  /\ out.parsed[k].subPhase = fields[1]
                          /\ ~Missing(fields, 2) => out.parsed[k].id = fields[2]

\* Two written tasks of one status and phase, with a task of another status
\* between them in the list.
C23_Witness ==
    /\ step = "parsed"
    /\ Len(input) = 3
    /\ \A i \in 1..3 : ~HasPlaceholderId(input[i]) /\ IsStatus(input[i].status)
    /\ input[1].status = input[3].status /\ input[1].phase = input[3].phase
    /\ input[1].id # input[3].id
    /\ input[2].status # input[1].status
    /\ Len(out.parsed) = 3

\* The two lists hold the same tasks, field by field, each as many times.
SameTasks(T, U) ==
    /\ Len(T) = Len(U)
    /\ \A i \in 1..Len(T) :
          Cardinality({j \in 1..Len(T) : TaskFields(T[j]) = TaskFields(T[i])}) =
          Cardinality({j \in 1..Len(U) : TaskFields(U[j]) = TaskFields(T[i])})

\* C26: moving a task changes only that task's status: handleTaskMove(id, s)
\* gives the task of that id status s and changes no other task, the sync
\* that follows keeps every task with its fields, adds none and removes
\* none, and the regenerated plan has a line for each task.
C26_MoveChangesOnlyStatus ==
    [][ /\ (events' = events + 1 /\ last'.op = "move" /\ ~last'.threw) =>
              /\ Len(tasks') = Len(tasks)
              /\ \E s \in DropColumns : \A i \in 1..Len(tasks) :
                    TaskFields(tasks'[i]) =
                    IF tasks[i].id = last'.id
                    THEN [TaskFields(tasks[i]) EXCEPT !.status = s]
                    ELSE TaskFields(tasks[i])
        /\ (last.op = "move" /\ ~last.threw /\ last'.op = "sync") =>
              /\ SameTasks(tasks', tasks)
              /\ \A i \in 1..Len(tasks) :
                    \E n \in 1..Len(TextLines(plan)) :
                       TextLines(plan)[n] = ExpectedTaskLine(tasks[i]) ]_vars

\* C27: saving the edit form of a task replaces exactly that task by the
\* edited values, also when the form changed the id, and leaves every other
\* task of the stored list as it was.
C27_EditReplacesThatTask ==
    [][ (events' = events + 1 /\ last'.op = "update" /\ ~last'.threw) =>
            \E i \in 1..Len(tasks), edit \in FormEdits :
               /\ tasks[i].id = last'.id
               /\ tasks' = [tasks EXCEPT ![i] = [tasks[i] EXCEPT ![edit.name] = edit.value]]
      ]_vars

\* A task of the restricted round trip: id, description and phase are not
\* empty, no text field has a comma, a line break or a blank at either end,
\* and the id does not start with 'partial-'.
Restricted(t) ==
    /\ PlainText(t.subPhase) /\ PlainText(t.id)
    /\ PlainText(t.description) /\ PlainText(t.phase)
    /\ t.id # <<>> /\ t.description # <<>> /\ t.phase # <<>>
    /\ ~HasPlaceholderId(t)

\* C28: for every task list T of such tasks, generate returns a text and
\* parse(generate(T)) holds exactly the tasks of T: the same multiset of
\* (subPhase, id, description, priority, status, phase), in some order.
C28_RestrictedRoundTrip ==
    (step # "input" /\ \A i \in 1..Len(input) : Restricted(input[i])) =>
        /\ ~out.gen.threw
        /\ step \in {"parsed", "regenerated"} =>
              /\ Len(out.parsed) = Len(input)
              /\ \A i \in 1..Len(input) :
                    Cardinality({j \in 1..Len(input) :
                                    WithoutLink(input[j]) = WithoutLink(input[i])}) =
                    Cardinality({j \in 1..Len(out.parsed) :
                                    out.parsed[j] = WithoutLink(input[i])})

\* The list has a task of this id that carries a sub-project link.
LinkedId(ts, id) == \E j \in 1..Len(ts) : ts[j].id = id /\ Linked(ts[j])

\* C29: a dropped link is not restored: an id that is not in the stored
\* list, or is there without a link (as every id is once a sync has run on
\* a text without it), carries a sub-project link again only by a
\* drill-down on the task of that id.
C29_DroppedLinkNotRestored ==
    [][ \A j \in 1..Len(tasks') :
           (Linked(tasks'[j]) /\ ~LinkedId(tasks, tasks'[j].id)) =>
               (last'.op = "drill down" /\ last'.id = tasks'[j].id) ]_vars

=============================================================================
